---- MODULE Spec2Model ----
(***************************************************************************)
(* Model of app.py: the policy table, the credential read at module load,  *)
(* generate_configuration (credential check, prompt assembly, one POST,    *)
(* response parsing, error mapping) and the page's button handler.         *)
(*                                                                         *)
(* Python values are tagged records: None, str, int, list, dict (a set of  *)
(* <<key, value>> pairs) and a raised exception.  Python strings are TLA+  *)
(* strings, so formatting is concatenation and "contains" is a substring   *)
(* test.                                                                   *)
(***************************************************************************)
EXTENDS Integers, Sequences, FiniteSets, TLC

----------------------------------------------------------------------------
(* Python values *)

PyNone == [t |-> "null"]
Str(s) == [t |-> "str", s |-> s]
Num(n) == [t |-> "num", n |-> n]
List(l) == [t |-> "list", l |-> l]
Dict(o) == [t |-> "dict", o |-> o]
Exc(kind, msg) == [t |-> "exc", kind |-> kind, msg |-> msg]

IsExc(v) == v.t = "exc"

\* type(v).__name__, as it appears in Python's error messages
TypeName(v) ==
  CASE v.t = "null" -> "NoneType"
    [] v.t = "str" -> "str"
    [] v.t = "num" -> "int"
    [] v.t = "list" -> "list"
    [] v.t = "dict" -> "dict"

\* `not v` for the values a credential can take (None or a str)
PyNot(v) == v.t = "null" \/ (v.t = "str" /\ v.s = "")

HasKey(d, k) == \E p \in d.o : p[1] = k
Lookup(d, k) == (CHOOSE p \in d.o : p[1] = k)[2]

\* x.get(k, default): a lookup with a default on a dict, AttributeError on
\* anything else; an exception raised earlier in the expression propagates
PyGet(x, k, default) ==
  IF IsExc(x) THEN x
  ELSE IF x.t = "dict" THEN (IF HasKey(x, k) THEN Lookup(x, k) ELSE default)
  ELSE Exc("AttributeError",
           "'" \o TypeName(x) \o "' object has no attribute 'get'")

\* x[0]
PyIndex0(x) ==
  IF IsExc(x) THEN x
  ELSE CASE x.t = "list" ->
              IF Len(x.l) = 0 THEN Exc("IndexError", "list index out of range")
              ELSE x.l[1]
         [] x.t = "str" ->
              IF Len(x.s) = 0 THEN Exc("IndexError", "string index out of range")
              ELSE Str(SubSeq(x.s, 1, 1))
         [] x.t = "dict" -> Exc("KeyError", "0")
         [] OTHER -> Exc("TypeError",
                         "'" \o TypeName(x) \o "' object is not subscriptable")

\* sub in s
Contains(s, sub) ==
  \E i \in 1..(Len(s) - Len(sub) + 1) : SubSeq(s, i, i + Len(sub) - 1) = sub

----------------------------------------------------------------------------
(* Module constants of app.py *)

MODEL_NAME == "gemini-2.0-flash-lite"
API_URL == "https://generativelanguage.googleapis.com/v1beta/models/"
             \o MODEL_NAME \o ":generateContent"

PolicyNames ==
  {"Strict Firewall Policy", "DMZ Web Server Policy", "Guest Network Policy"}

PolicyTable ==
  [n \in PolicyNames |->
     CASE n = "Strict Firewall Policy" ->
            "Context: The firewall must be configured to deny all incoming traffic by default, except for specific ports (80, 443, 22) for web and SSH access. Outgoing traffic is permitted for all internal hosts."
       [] n = "DMZ Web Server Policy" ->
            "Context: The DMZ web server must allow incoming traffic on ports 80 and 443 from any source. All other incoming traffic should be blocked. The server can only initiate connections to internal databases on port 3306."
       [] n = "Guest Network Policy" ->
            "Context: The guest network must provide internet access only. All traffic between hosts on the guest network should be blocked. No access to the internal corporate network is permitted from the guest network."]

MissingKeyMessage ==
  "API Key is not configured. Please add your GOOGLE_API_KEY to Streamlit secrets."
Placeholder == "No configuration generated."
RequestErrorPrefix == "Error communicating with the API: "
UnexpectedErrorPrefix == "An unexpected error occurred: "

----------------------------------------------------------------------------
(* The credential: st.secrets.get(name, os.environ.get(name)) *)

SecretName == "GOOGLE_API_KEY"

\* variant: the fallback to the environment is forgotten
ResolveKey_SecretsOnly(sec, env) == PyGet(sec, SecretName, PyNone)

ResolveKey(sec, env) == PyGet(sec, SecretName, PyGet(env, SecretName, PyNone))

\* variant: the test is `API_KEY is None`
KeyMissing_NoneOnly(key) == key.t = "null"

\* the test `not API_KEY` of generate_configuration
KeyMissing(key) == PyNot(key)

----------------------------------------------------------------------------
(* Prompt and request assembly *)

FullPrompt(prompt, context) ==
  "You are a very very expert network engineer assistant. Your task is to generate a network device configuration based on the user's request, ensuring it adheres to the provided network policy. Provide the configuration in a clean and detail, human-readable text format, without any extra conversation. Network Policy: "
    \o context \o " User Request: " \o prompt \o " Generated Configuration: "

\* temperature 0.5 is kept as the string of its literal
BuildRequest(key, prompt, context) ==
  [method |-> "POST",
   url |-> API_URL,
   params |-> Dict({<<"key", key>>}),
   headers |-> Dict({<<"Content-Type", Str("application/json")>>}),
   data |-> Dict({
     <<"contents",
       List(<<Dict({<<"parts",
                      List(<<Dict({<<"text",
                                     Str(FullPrompt(prompt, context))>>})>>)>>})>>)>>,
     <<"generationConfig",
       Dict({<<"temperature", Str("0.5")>>, <<"maxOutputTokens", Num(1024)>>})>>})]

----------------------------------------------------------------------------
(* What the transport can answer to requests.post *)

\* requests.post raised (no response): a subclass of RequestException
Raised(kind, msg) == [kind |-> "raise", exc |-> Exc(kind, msg)]

\* a response: its status, whether its body is JSON text, and the value the
\* body parses to; lib_json_error tells whether the installed requests
\* raises its own JSONDecodeError (a RequestException, requests >= 2.27) or
\* the json module's (a ValueError)
Response(status, is_json, data, lib_json_error) ==
  [kind |-> "response", status |-> status, is_json |-> is_json, data |-> data,
   lib_json_error |-> lib_json_error]

Reason(status) ==
  CASE status = 400 -> "Bad Request"
    [] status = 404 -> "Not Found"
    [] status = 429 -> "Too Many Requests"
    [] status = 500 -> "Internal Server Error"
    [] status = 503 -> "Service Unavailable"
    [] OTHER -> ""

UrlOf(req) == req.url \o "?key=" \o Lookup(req.params, "key").s

\* str(e) of the HTTPError raise_for_status builds
HTTPErrorMessage(status, req) ==
  ToString(status)
    \o (IF status < 500 THEN " Client Error: " ELSE " Server Error: ")
    \o Reason(status) \o " for url: " \o UrlOf(req)

\* variant: only server errors raise
RaiseForStatus_ServerOnly(resp, req) ==
  IF 500 <= resp.status /\ resp.status < 600
  THEN Exc("HTTPError", HTTPErrorMessage(resp.status, req))
  ELSE PyNone

\* response.raise_for_status(): HTTPError for 400 <= status < 600, else None
RaiseForStatus(resp, req) ==
  IF 400 <= resp.status /\ resp.status < 600
  THEN Exc("HTTPError", HTTPErrorMessage(resp.status, req))
  ELSE PyNone

\* response.json()
ResponseJson(resp) ==
  IF resp.is_json THEN resp.data
  ELSE IF resp.lib_json_error
       THEN Exc("RequestsJSONDecodeError",
                "Expecting value: line 1 column 1 (char 0)")
       ELSE Exc("JSONDecodeError", "Expecting value: line 1 column 1 (char 0)")

\* variant: the list defaults are [] instead of [{}]
ExtractText_EmptyDefaults(response_data) ==
  PyGet(
    PyIndex0(
      PyGet(
        PyGet(
          PyIndex0(PyGet(response_data, "candidates", List(<<>>))),
          "content", Dict({})),
        "parts", List(<<>>))),
    "text", Str(Placeholder))

\* variant: the default is applied with `or`, so an empty text is replaced
ExtractText_OrPlaceholder(response_data) ==
  LET text ==
        PyGet(
          PyIndex0(
            PyGet(
              PyGet(
                PyIndex0(PyGet(response_data, "candidates", List(<<Dict({})>>))),
                "content", Dict({})),
              "parts", List(<<Dict({})>>))),
          "text", PyNone)
  IN IF text = PyNone \/ text = Str("") THEN Str(Placeholder) ELSE text

\* response_data.get("candidates", [{}])[0].get("content", {})
\*     .get("parts", [{}])[0].get("text", "No configuration generated.")
ExtractText(response_data) ==
  PyGet(
    PyIndex0(
      PyGet(
        PyGet(
          PyIndex0(PyGet(response_data, "candidates", List(<<Dict({})>>))),
          "content", Dict({})),
        "parts", List(<<Dict({})>>))),
    "text", Str(Placeholder))

\* the body of the try block, from the transport's answer on: the value
\* returned, or the exception raised inside the block
TryBlock(outcome, req) ==
  IF outcome.kind = "raise" THEN outcome.exc
  ELSE LET checked == RaiseForStatus(outcome, req) IN
       IF IsExc(checked) THEN checked
       ELSE LET response_data == ResponseJson(outcome) IN
            IF IsExc(response_data) THEN response_data
            ELSE ExtractText(response_data)

\* exception classes
RequestExceptions ==
  {"ConnectionError", "Timeout", "HTTPError", "RequestsJSONDecodeError"}
Exceptions ==
  RequestExceptions \cup
    {"AttributeError", "IndexError", "KeyError", "TypeError", "JSONDecodeError"}

\* the two except clauses; what neither catches leaves the function raised
ExceptClauses(v) ==
  IF ~IsExc(v) THEN v
  ELSE IF v.kind \in RequestExceptions THEN Str(RequestErrorPrefix \o v.msg)
  ELSE IF v.kind \in Exceptions THEN Str(UnexpectedErrorPrefix \o v.msg)
  ELSE v

\* lines 83-98: what generate_configuration returns for a transport answer
Complete(outcome, req) == ExceptClauses(TryBlock(outcome, req))

----------------------------------------------------------------------------
(* Bounds and input universes *)

\* concurrent page sessions (script runs) of the interleaved specification
NumSessions == 2
Sessions == 1..NumSessions

\* what the operator can put in the secrets store and in the environment
SecretsStores ==
  {Dict({}), Dict({<<SecretName, Str("")>>}), Dict({<<SecretName, Str("s-key")>>})}
Environments == {Dict({}), Dict({<<SecretName, Str("e-key")>>})}

\* what a user can type in the text area
UserPrompts == {"", "Configure VLAN 10 with gateway 10.0.10.1"}
\* arguments of a direct call of generate_configuration
DirectPrompts == {"", "anything"}
DirectContexts == {"anything"}

\* generated texts
Texts == {"", "hostname R1", "interface Vlan10 ip address 10.0.10.1 255.255.255.0"}

\* values that are not what the response shape expects at a position
Junk == {PyNone, Str("x"), Num(7), List(<<>>), Dict({})}

Part(text) == Dict({<<"text", text>>})
Parts(elem) == List(<<elem>>)
Content(parts) == Dict({<<"parts", parts>>})
Candidate(content) == Dict({<<"content", content>>})
Candidates(elem) == List(<<elem>>)
Body(candidates) == Dict({<<"candidates", candidates>>})

\* {candidates:[{content:{parts:[{text:T}]}}]}
WellFormed(T) == Body(Candidates(Candidate(Content(Parts(Part(Str(T)))))))

TextVals == {Str(T) : T \in Texts} \cup Junk
PartElems == {Part(v) : v \in TextVals} \cup Junk
PartsVals ==
  {Parts(e) : e \in PartElems} \cup Junk
    \cup {List(<<Part(Str("hostname R1")), Part(Str("second part"))>>)}
ContentVals == {Content(v) : v \in PartsVals} \cup Junk
CandElems ==
  {Candidate(v) : v \in ContentVals} \cup Junk
    \cup {Dict({<<"content", Content(Parts(Part(Str("hostname R1"))))>>,
                <<"finishReason", Str("STOP")>>})}
CandidatesVals == {Candidates(e) : e \in CandElems} \cup Junk
JsonBodies ==
  {Body(v) : v \in CandidatesVals} \cup Junk
    \cup {Dict({<<"candidates",
                  Candidates(Candidate(Content(Parts(Part(Str("hostname R1"))))))>>,
                <<"usageMetadata", Dict({})>>}),
          Dict({<<"promptFeedback", Dict({<<"blockReason", Str("SAFETY")>>})>>})}

Statuses == {200, 201, 304, 404, 500}

\* bodies sent with the statuses other than 200
FewBodies == {WellFormed("hostname R1"), Dict({}), Body(List(<<>>))}

\* every answer of the transport
Outcomes ==
  {Raised("ConnectionError", "Max retries exceeded"), Raised("Timeout", "Read timed out")}
    \cup {Response(200, TRUE, b, TRUE) : b \in JsonBodies}
    \cup {Response(st, TRUE, b, TRUE) : st \in Statuses \ {200}, b \in FewBodies}
    \cup {Response(st, FALSE, PyNone, lib) : st \in Statuses, lib \in BOOLEAN}

\* the answers of the interleaved specification
FewOutcomes ==
  {Raised("ConnectionError", "Max retries exceeded"),
   Response(200, TRUE, WellFormed("hostname R1"), TRUE),
   Response(200, TRUE, Body(List(<<>>)), TRUE),
   Response(200, TRUE, WellFormed("interface Vlan10 ip address 10.0.10.1 255.255.255.0"), TRUE),
   Response(500, FALSE, PyNone, TRUE)}

----------------------------------------------------------------------------
(* State *)

VARIABLES
  secrets,           \* st.secrets, restricted to GOOGLE_API_KEY
  environ,           \* os.environ, restricted to GOOGLE_API_KEY
  pc,                \* per session: where the script run is
  API_KEY,           \* per session: the module global read at load
  NETWORK_POLICIES,  \* per session: the module global table
  selected_policy,   \* per session: the selectbox value
  user_prompt,       \* per session: the text area value
  clicked,           \* per session: the button's value
  warning,           \* per session: st.warning was shown
  caller,            \* per session: who invoked generate_configuration
  prompt,            \* per session: argument of the current invocation
  context,           \* per session: argument of the current invocation
  request,           \* per session: the request posted by the invocation
  posts,             \* per session: requests.post calls of the invocation
  response,          \* per session: the transport's answer
  result,            \* per session: the value the invocation returned
  configuration,     \* per session: the value the page displayed
  epoch,             \* history: 0; 1 once a call returned the missing-
                     \* credential message; 2 while a credential configured
                     \* after that is in place
  loadEpoch,         \* history, per session: epoch when the module loaded
  callEpoch          \* history, per session: epoch when the call was made

vars ==
  <<secrets, environ, pc, API_KEY, NETWORK_POLICIES, selected_policy,
    user_prompt, clicked, warning, caller, prompt, context, request, posts,
    response, result, configuration, epoch, loadEpoch, callEpoch>>

config == <<secrets, environ>>
globals == <<API_KEY, NETWORK_POLICIES>>
widgets == <<selected_policy, user_prompt, clicked>>
invocation == <<caller, prompt, context, request, posts, response, result>>

Unset == [t |-> "unset", kind |-> "unset"]
NoTable == [n \in {} |-> ""]

InitWith(secs, envs) ==
  /\ secrets \in secs
  /\ environ \in envs
  /\ pc = [r \in Sessions |-> "start"]
  /\ API_KEY = [r \in Sessions |-> Unset]
  /\ NETWORK_POLICIES = [r \in Sessions |-> NoTable]
  /\ selected_policy = [r \in Sessions |-> ""]
  /\ user_prompt = [r \in Sessions |-> ""]
  /\ clicked = [r \in Sessions |-> FALSE]
  /\ warning = [r \in Sessions |-> FALSE]
  /\ caller = [r \in Sessions |-> "none"]
  /\ prompt = [r \in Sessions |-> ""]
  /\ context = [r \in Sessions |-> ""]
  /\ request = [r \in Sessions |-> Unset]
  /\ posts = [r \in Sessions |-> 0]
  /\ response = [r \in Sessions |-> Unset]
  /\ result = [r \in Sessions |-> Unset]
  /\ configuration = [r \in Sessions |-> Unset]
  /\ epoch = 0
  /\ loadEpoch = [r \in Sessions |-> 0]
  /\ callEpoch = [r \in Sessions |-> 0]

Init == InitWith(SecretsStores, Environments)

----------------------------------------------------------------------------
(* Operations *)

\* a non-empty GOOGLE_API_KEY is what the process configuration yields: the
\* secrets store's entry if it has one, else the environment's
CredentialInPlace(sec, env) ==
  IF HasKey(sec, SecretName) THEN Lookup(sec, SecretName).s # ""
  ELSE HasKey(env, SecretName) /\ Lookup(env, SecretName).s # ""

\* the operator edits the secrets store or the environment
Configure(sec, env) ==
  /\ <<sec, env>> # <<secrets, environ>>
  /\ secrets' = sec
  /\ environ' = env
  /\ epoch' = IF epoch = 0 THEN 0
              ELSE IF CredentialInPlace(sec, env) THEN 2 ELSE 1
  /\ UNCHANGED <<pc, globals, widgets, warning, invocation, configuration,
                 loadEpoch, callEpoch>>

\* the script run starts: the module globals are evaluated
LoadModule(r) ==
  /\ pc[r] = "start"
  /\ API_KEY' = [API_KEY EXCEPT ![r] = ResolveKey(secrets, environ)]
  /\ NETWORK_POLICIES' = [NETWORK_POLICIES EXCEPT ![r] = PolicyTable]
  /\ loadEpoch' = [loadEpoch EXCEPT ![r] = epoch]
  /\ pc' = [pc EXCEPT ![r] = "widgets"]
  /\ UNCHANGED <<config, widgets, warning, invocation, configuration, epoch,
                 callEpoch>>

\* the selectbox, the text area and the button deliver their values
Widgets(r, policy, text, button) ==
  /\ pc[r] = "widgets"
  /\ policy \in DOMAIN NETWORK_POLICIES[r]
  /\ selected_policy' = [selected_policy EXCEPT ![r] = policy]
  /\ user_prompt' = [user_prompt EXCEPT ![r] = text]
  /\ clicked' = [clicked EXCEPT ![r] = button]
  /\ pc' = [pc EXCEPT ![r] = "button"]
  /\ UNCHANGED <<config, globals, warning, invocation, configuration, epoch,
                 loadEpoch, callEpoch>>

\* variant: the handler calls without testing user_prompt
ButtonHandler_NoGuard(r) ==
  /\ pc[r] = "button"
  /\ IF ~clicked[r]
     THEN /\ pc' = [pc EXCEPT ![r] = "end"]
          /\ UNCHANGED <<caller, prompt, context>>
     ELSE /\ caller' = [caller EXCEPT ![r] = "page"]
          /\ prompt' = [prompt EXCEPT ![r] = user_prompt[r]]
          /\ context' =
               [context EXCEPT ![r] = NETWORK_POLICIES[r][selected_policy[r]]]
          /\ pc' = [pc EXCEPT ![r] = "gc"]
  /\ UNCHANGED <<config, globals, widgets, warning, request, posts, response,
                 result, configuration, epoch, loadEpoch, callEpoch>>

\* if st.button(...): if not user_prompt: warning, else: the call
ButtonHandler(r) ==
  /\ pc[r] = "button"
  /\ IF ~clicked[r]
     THEN /\ pc' = [pc EXCEPT ![r] = "end"]
          /\ UNCHANGED <<warning, caller, prompt, context>>
     ELSE IF user_prompt[r] = ""
     THEN /\ warning' = [warning EXCEPT ![r] = TRUE]
          /\ pc' = [pc EXCEPT ![r] = "end"]
          /\ UNCHANGED <<caller, prompt, context>>
     ELSE /\ caller' = [caller EXCEPT ![r] = "page"]
          /\ prompt' = [prompt EXCEPT ![r] = user_prompt[r]]
          /\ context' =
               [context EXCEPT ![r] = NETWORK_POLICIES[r][selected_policy[r]]]
          /\ pc' = [pc EXCEPT ![r] = "gc"]
          /\ UNCHANGED warning
  /\ UNCHANGED <<config, globals, widgets, request, posts, response, result,
                 configuration, epoch, loadEpoch, callEpoch>>

\* generate_configuration is called on the loaded module by another caller
\* (a test with a substituted transport), with any arguments; the module
\* was imported outside a page session, where the button is never clicked
DirectCall(r, p, c) ==
  /\ pc[r] = "end" \/ (pc[r] = "returned" /\ caller[r] = "direct")
  /\ ~clicked[r]
  /\ caller' = [caller EXCEPT ![r] = "direct"]
  /\ prompt' = [prompt EXCEPT ![r] = p]
  /\ context' = [context EXCEPT ![r] = c]
  /\ request' = [request EXCEPT ![r] = Unset]
  /\ posts' = [posts EXCEPT ![r] = 0]
  /\ response' = [response EXCEPT ![r] = Unset]
  /\ result' = [result EXCEPT ![r] = Unset]
  /\ pc' = [pc EXCEPT ![r] = "gc"]
  /\ UNCHANGED <<config, globals, widgets, warning, configuration, epoch,
                 loadEpoch, callEpoch>>

\* generate_configuration up to the POST: the credential check, the prompt,
\* the payload, and the request handed to the transport
GenEnter(r) ==
  /\ pc[r] = "gc"
  /\ callEpoch' = [callEpoch EXCEPT ![r] = epoch]
  /\ IF KeyMissing(API_KEY[r])
     THEN /\ result' = [result EXCEPT ![r] = Str(MissingKeyMessage)]
          /\ pc' = [pc EXCEPT ![r] = "returned"]
          /\ epoch' = IF epoch = 0 THEN 1 ELSE epoch
          /\ UNCHANGED <<request, posts>>
     ELSE /\ request' =
               [request EXCEPT ![r] = BuildRequest(API_KEY[r], prompt[r], context[r])]
          /\ posts' = [posts EXCEPT ![r] = posts[r] + 1]
          /\ pc' = [pc EXCEPT ![r] = "awaiting"]
          /\ UNCHANGED <<result, epoch>>
  /\ UNCHANGED <<config, globals, widgets, warning, caller, prompt, context,
                 response, configuration, loadEpoch>>

\* variant: a failed request is posted once more before its error is returned
GenComplete_Retry(r, outcome) ==
  /\ pc[r] = "awaiting"
  /\ response' = [response EXCEPT ![r] = outcome]
  /\ IF IsExc(TryBlock(outcome, request[r])) /\ posts[r] < 2
     THEN /\ posts' = [posts EXCEPT ![r] = posts[r] + 1]
          /\ UNCHANGED <<result, pc>>
     ELSE /\ result' = [result EXCEPT ![r] = Complete(outcome, request[r])]
          /\ pc' = [pc EXCEPT ![r] = "returned"]
          /\ UNCHANGED posts
  /\ UNCHANGED <<config, globals, widgets, warning, caller, prompt, context,
                 request, configuration, epoch, loadEpoch, callEpoch>>

\* variant: the returned value is kept in a place every session shares
GenComplete_SharedResult(r, outcome) ==
  /\ pc[r] = "awaiting"
  /\ response' = [response EXCEPT ![r] = outcome]
  /\ result' =
       [q \in Sessions |->
          IF q = r \/ pc[q] = "returned"
          THEN Complete(outcome, request[r]) ELSE result[q]]
  /\ pc' = [pc EXCEPT ![r] = "returned"]
  /\ UNCHANGED <<config, globals, widgets, warning, caller, prompt, context,
                 request, posts, configuration, epoch, loadEpoch, callEpoch>>

\* generate_configuration from the transport's answer to its return
GenComplete(r, outcome) ==
  /\ pc[r] = "awaiting"
  /\ response' = [response EXCEPT ![r] = outcome]
  /\ result' = [result EXCEPT ![r] = Complete(outcome, request[r])]
  /\ pc' = [pc EXCEPT ![r] = "returned"]
  /\ UNCHANGED <<config, globals, widgets, warning, caller, prompt, context,
                 request, posts, configuration, epoch, loadEpoch, callEpoch>>

\* the page shows the returned value (st.code) and the static messages
Display(r) ==
  /\ pc[r] = "returned"
  /\ caller[r] = "page"
  /\ configuration' = [configuration EXCEPT ![r] = result[r]]
  /\ pc' = [pc EXCEPT ![r] = "end"]
  /\ UNCHANGED <<config, globals, widgets, warning, invocation, epoch,
                 loadEpoch, callEpoch>>

\* an interaction makes the script run again from its first line
Rerun(r) ==
  /\ pc[r] = "end" \/ (pc[r] = "returned" /\ caller[r] = "direct")
  /\ pc' = [pc EXCEPT ![r] = "start"]
  /\ API_KEY' = [API_KEY EXCEPT ![r] = Unset]
  /\ NETWORK_POLICIES' = [NETWORK_POLICIES EXCEPT ![r] = NoTable]
  /\ selected_policy' = [selected_policy EXCEPT ![r] = ""]
  /\ user_prompt' = [user_prompt EXCEPT ![r] = ""]
  /\ clicked' = [clicked EXCEPT ![r] = FALSE]
  /\ warning' = [warning EXCEPT ![r] = FALSE]
  /\ caller' = [caller EXCEPT ![r] = "none"]
  /\ prompt' = [prompt EXCEPT ![r] = ""]
  /\ context' = [context EXCEPT ![r] = ""]
  /\ request' = [request EXCEPT ![r] = Unset]
  /\ posts' = [posts EXCEPT ![r] = 0]
  /\ response' = [response EXCEPT ![r] = Unset]
  /\ result' = [result EXCEPT ![r] = Unset]
  /\ configuration' = [configuration EXCEPT ![r] = Unset]
  /\ loadEpoch' = [loadEpoch EXCEPT ![r] = 0]
  /\ callEpoch' = [callEpoch EXCEPT ![r] = 0]
  /\ UNCHANGED <<config, epoch>>

----------------------------------------------------------------------------
(* Specifications *)

First == CHOOSE r \in Sessions : \A q \in Sessions : r <= q

\* one session, every input and every answer of the transport
Next ==
  \/ \E sec \in SecretsStores, env \in Environments : Configure(sec, env)
  \/ LoadModule(First)
  \/ \E policy \in PolicyNames, text \in UserPrompts, button \in BOOLEAN :
       Widgets(First, policy, text, button)
  \/ ButtonHandler(First)
  \/ \E p \in DirectPrompts, c \in DirectContexts : DirectCall(First, p, c)
  \/ GenEnter(First)
  \/ \E outcome \in Outcomes : GenComplete(First, outcome)
  \/ Display(First)
  \/ Rerun(First)

Spec == Init /\ [][Next]_vars

\* every session, interleaved, with few inputs and few answers, under a
\* process configuration that stays as it was at start
ConcInit == InitWith({Dict({})}, {Dict({}), Dict({<<SecretName, Str("e-key")>>})})

ConcNext ==
  \E r \in Sessions :
       \/ LoadModule(r)
       \/ \E policy \in {"Guest Network Policy", "DMZ Web Server Policy"},
             text \in UserPrompts :
            Widgets(r, policy, text, TRUE)
       \/ ButtonHandler(r)
       \/ GenEnter(r)
       \/ \E outcome \in FewOutcomes : GenComplete(r, outcome)
       \/ Display(r)
       \/ Rerun(r)

ConcSpec == ConcInit /\ [][ConcNext]_vars

----------------------------------------------------------------------------
(* Properties *)

\* the session's invocation has returned (its result is in place)
Returned(r) == pc[r] \in {"returned", "end"} /\ caller[r] # "none"

\* the invocation got a response with a 2xx status and a JSON body
Got2xxJson(r) ==
  /\ Returned(r)
  /\ response[r].kind = "response"
  /\ 200 <= response[r].status /\ response[r].status < 300
  /\ response[r].is_json

StartsWith(s, prefix) == Len(s) >= Len(prefix) /\ SubSeq(s, 1, Len(prefix)) = prefix

\* the body has the shape {candidates:[{content:{parts:[{text:T}]}}]}
Conforms(d) ==
  /\ d.t = "dict" /\ HasKey(d, "candidates")
  /\ LET cs == Lookup(d, "candidates") IN
     /\ cs.t = "list" /\ Len(cs.l) > 0
     /\ LET c == cs.l[1] IN
        /\ c.t = "dict" /\ HasKey(c, "content")
        /\ LET ct == Lookup(c, "content") IN
           /\ ct.t = "dict" /\ HasKey(ct, "parts")
           /\ LET ps == Lookup(ct, "parts") IN
              /\ ps.t = "list" /\ Len(ps.l) > 0
              /\ ps.l[1].t = "dict" /\ HasKey(ps.l[1], "text")
              /\ Lookup(ps.l[1], "text").t = "str"

\* the body has the shape down to some level, where the next key is missing
MissingKey(d) ==
  /\ d.t = "dict"
  /\ \/ ~HasKey(d, "candidates")
     \/ LET cs == Lookup(d, "candidates") IN
        /\ cs.t = "list" /\ Len(cs.l) > 0 /\ cs.l[1].t = "dict"
        /\ \/ ~HasKey(cs.l[1], "content")
           \/ LET ct == Lookup(cs.l[1], "content") IN
              /\ ct.t = "dict"
              /\ \/ ~HasKey(ct, "parts")
                 \/ LET ps == Lookup(ct, "parts") IN
                    /\ ps.t = "list" /\ Len(ps.l) > 0 /\ ps.l[1].t = "dict"
                    /\ ~HasKey(ps.l[1], "text")

\* the session's credential is absent or empty
NoCredential(r) == API_KEY[r] \in {PyNone, Str("")}

\* C1: a call made while API_KEY is None or empty returns the fixed
\* missing-credential message and posts nothing, whatever its arguments.
C1_MissingCredential ==
  \A r \in Sessions :
    (caller[r] # "none" /\ pc[r] # "gc" /\ NoCredential(r)) =>
      /\ result[r] = Str(MissingKeyMessage)
      /\ posts[r] = 0
      /\ request[r] = Unset
      /\ response[r] = Unset

C1_Witness ==
  \E r \in Sessions :
    /\ Returned(r) /\ caller[r] = "direct" /\ prompt[r] = ""
    /\ API_KEY[r] = Str("")
    /\ result[r] = Str(MissingKeyMessage) /\ posts[r] = 0

\* C2 (as claimed): a 2xx JSON body that deviates from the shape in any way
\* makes the call return exactly the placeholder.
C2_AnyDeviationPlaceholder ==
  \A r \in Sessions :
    (Got2xxJson(r) /\ ~Conforms(response[r].data)) =>
      result[r] = Str(Placeholder)

\* C3: a 2xx JSON body in which candidates, content, parts or text is missing
\* at its level (the empty object included) makes the call return the
\* placeholder.
C3_MissingKeyPlaceholder ==
  \A r \in Sessions :
    (Got2xxJson(r) /\ MissingKey(response[r].data)) =>
      result[r] = Str(Placeholder)

C3_Witness ==
  \E r \in Sessions :
    /\ Got2xxJson(r)
    /\ response[r].data = Body(Candidates(Candidate(Dict({}))))
    /\ result[r] = Str(Placeholder)

\* C4: a 2xx body {candidates:[{content:{parts:[{text:T}]}}]} makes the call
\* return exactly T, whatever the prompt and the context.
C4_ReturnsText ==
  \A r \in Sessions : \A T \in Texts :
    (Got2xxJson(r) /\ response[r].data = WellFormed(T)) => result[r] = Str(T)

C4_Witness ==
  \E r \in Sessions :
    /\ Got2xxJson(r) /\ caller[r] = "page"
    /\ context[r] = PolicyTable["DMZ Web Server Policy"]
    /\ response[r].data =
         WellFormed("interface Vlan10 ip address 10.0.10.1 255.255.255.0")
    /\ result[r] = Str("interface Vlan10 ip address 10.0.10.1 255.255.255.0")

\* C5 (as claimed): whatever the transport answers, no exception leaves the
\* call and the value returned is a string.
C5_AlwaysString ==
  \A r \in Sessions : Returned(r) => result[r].t = "str"

\* the call reports the response's status as a request error, once
ReportsHTTPError(r) ==
  /\ result[r].t = "str"
  /\ StartsWith(result[r].s, RequestErrorPrefix)
  /\ Contains(result[r].s, HTTPErrorMessage(response[r].status, request[r]))
  /\ posts[r] = 1

\* C6 (as claimed): every response whose status is not 2xx makes the call
\* return a string embedding the request error, with no second request.
C6_Non2xxIsError ==
  \A r \in Sessions :
    (Returned(r) /\ response[r].kind = "response"
       /\ ~(200 <= response[r].status /\ response[r].status < 300)) =>
      ReportsHTTPError(r)

\* C6 (amended): every response whose status is 4xx or 5xx makes the call
\* return a string embedding the request error, with no second request.
C6_ErrorStatusIsError ==
  \A r \in Sessions :
    (Returned(r) /\ response[r].kind = "response"
       /\ 400 <= response[r].status /\ response[r].status < 600) =>
      ReportsHTTPError(r)

C6_Witness ==
  \E r \in Sessions :
    /\ Returned(r) /\ response[r].kind = "response" /\ response[r].status = 404
    /\ result[r] =
         Str(RequestErrorPrefix \o "404 Client Error: Not Found for url: "
               \o API_URL \o "?key=s-key")
    /\ posts[r] = 1

\* C7 (as claimed): every invocation posts exactly once.
C7_ExactlyOnePost ==
  \A r \in Sessions : Returned(r) => posts[r] = 1

\* a step of the session's invocation
InvocationStep(r) == pc[r] \in {"gc", "awaiting"} /\ pc'[r] # pc[r]

\* C7 (amended): an invocation posts exactly once when a credential is
\* present and never when it is absent, and no step of an invocation changes
\* the configuration, the module globals or the page's state.
C7_OnePostWithCredential ==
  /\ [](\A r \in Sessions :
          Returned(r) => posts[r] = (IF NoCredential(r) THEN 0 ELSE 1))
  /\ [][\A r \in Sessions :
          InvocationStep(r) =>
            UNCHANGED <<config, globals, widgets, warning, configuration>>]_vars

C7_Witness ==
  \E r \in Sessions :
    /\ Returned(r) /\ response[r].kind = "raise" /\ posts[r] = 1
    /\ StartsWith(result[r].s, RequestErrorPrefix)

\* the session's call has passed the credential check
Called(r) == caller[r] # "none" /\ pc[r] \in {"awaiting", "returned", "end"}

\* C8 (as claimed): a call made after an earlier call returned the
\* missing-credential message and a credential was then configured sees that
\* credential and attempts the request.
C8_ReadOnEachCall ==
  \A r \in Sessions :
    (Called(r) /\ callEpoch[r] = 2) =>
      (result[r] # Str(MissingKeyMessage) /\ posts[r] = 1)

\* C8 (amended): the credential is read when the module loads; a call of a
\* script run that loaded after an earlier call returned the
\* missing-credential message and a credential was then configured sees that
\* credential and attempts the request.
C8_ReadAtLoad ==
  \A r \in Sessions :
    (Called(r) /\ loadEpoch[r] = 2) =>
      (result[r] # Str(MissingKeyMessage) /\ posts[r] = 1)

C8_Witness ==
  \E r \in Sessions :
    /\ loadEpoch[r] = 2 /\ pc[r] = "awaiting" /\ posts[r] = 1
    /\ API_KEY[r] = Str("e-key")

\* C9: the page calls generate_configuration only with a non-empty request
\* and the text of one of the table's policies; an empty request gives the
\* warning and no call; the table is never changed.
C9_CallerInvariant ==
  \A r \in Sessions :
    /\ caller[r] = "page" =>
         /\ prompt[r] # ""
         /\ \E n \in PolicyNames : context[r] = PolicyTable[n]
    /\ (pc[r] = "end" /\ clicked[r] /\ user_prompt[r] = "") =>
         /\ warning[r]
         /\ caller[r] = "none" /\ posts[r] = 0 /\ result[r] = Unset
    /\ pc[r] # "start" => NETWORK_POLICIES[r] = PolicyTable

C9_Witness ==
  \E r \in Sessions :
    /\ pc[r] = "end" /\ caller[r] = "page"
    /\ configuration[r] = result[r]
    /\ prompt[r] = "Configure VLAN 10 with gateway 10.0.10.1"
    /\ context[r] = PolicyTable["Guest Network Policy"]

\* C10: interleaved invocations share nothing: invocations with the same
\* arguments, credential and answer return the same value, and a step of one
\* session (a failure included) changes no other session's invocation.
C10_Independent ==
  /\ [](\A i, j \in Sessions :
          (Returned(i) /\ Returned(j) /\ API_KEY[i] = API_KEY[j]
             /\ prompt[i] = prompt[j] /\ context[i] = context[j]
             /\ response[i] = response[j]) =>
            result[i] = result[j])
  /\ [][\A j \in Sessions :
          pc'[j] = pc[j] =>
            /\ result'[j] = result[j] /\ response'[j] = response[j]
            /\ request'[j] = request[j] /\ posts'[j] = posts[j]
            /\ configuration'[j] = configuration[j]]_vars

C10_Witness ==
  \E i, j \in Sessions :
    /\ i # j /\ Returned(i) /\ Returned(j)
    /\ response[i].kind = "raise" /\ StartsWith(result[i].s, RequestErrorPrefix)
    /\ result[j] = Str("hostname R1") /\ posts[i] = 1 /\ posts[j] = 1

====
